---- MODULE Spec2Model ----
(***************************************************************************)
(* Feed ingestion and categorization pipeline of briefed-site              *)
(* (src/fetch_feed.py): summarize_text, fetch_feed_items,                  *)
(* categorize_entry, process_entries and the categorization loop of        *)
(* generate_html.                                                          *)
(*                                                                         *)
(* Text is a sequence of one-character strings, so that the regular        *)
(* expressions of the source are computed character by character.          *)
(*                                                                         *)
(* src/fetch_feed.py lines 84 and 88 are written one indentation level too *)
(* shallow (the bodies of the two keyword `if`s).  The model reads them as *)
(* the bodies of those `if`s, the only reading under which the file is a   *)
(* Python program.                                                         *)
(***************************************************************************)
EXTENDS Bags, FiniteSets, Integers, Sequences, TLC

VARIABLES
    pc,             \* position of the running function
    feed_dict,      \* process_entries: the source mapping, as an ordered list of names
    idx,            \* process_entries: index of the source the loop is at
    calls,          \* sources fetch_feed_items was called for, in call order
    outcomes,       \* what each finished fetch met: the server's response
    entries,        \* process_entries: the list `entries`
    categories_map, \* generate_html: the dict `categories_map`
    input,          \* argument of the function under test (pure-function runs)
    output          \* its result

vars == <<pc, feed_dict, idx, calls, outcomes, entries, categories_map, input, output>>

\* ------------------------------------------------------------------ bounds

\* longest text given to summarize_text on its own
MaxLen == 6
\* default of max_sentences
DefaultMaxSentences == 2

\* ------------------------------------------------------------- text helpers

Min(S) == CHOOSE x \in S : \A y \in S : x <= y

SeqsUpTo(S, n) == UNION {[1..k -> S] : k \in 0..n}

Take(s, n) == SubSeq(s, 1, IF n < Len(s) THEN n ELSE Len(s))

\* Python's str.join over a list of texts
RECURSIVE Join(_, _)
Join(parts, sep) ==
    IF parts = <<>> THEN <<>>
    ELSE IF Len(parts) = 1 THEN parts[1]
    ELSE parts[1] \o sep \o Join(Tail(parts), sep)

\* the characters \s matches
Whitespace == {" ", "\t", "\n", "\r"}

IsSpace(c) == c \in Whitespace

\* the characters of the class [.!?]
Terminators == {".", "!", "?"}

\* index of the last character of the whitespace run that starts at i
RECURSIVE RunEnd(_, _)
RunEnd(s, i) ==
    IF i < Len(s) /\ IsSpace(s[i + 1]) THEN RunEnd(s, i + 1) ELSE i

\* --------------------------------------------------------- summarize_text

\* A match of <[^<]+?> that starts at i ends at the first ">" at or after
\* i + 2 with no "<" in between (the lazy + takes as few characters as it
\* can, and at least one); 0 when there is no match at i.
TagEnd(s, i) ==
    IF s[i] # "<" THEN 0
    ELSE LET ends == {j \in (i + 2)..Len(s) :
                         /\ s[j] = ">"
                         /\ \A k \in (i + 1)..(j - 1) : s[k] # "<"}
         IN  IF ends = {} THEN 0 ELSE Min(ends)

\* re.sub(r"<[^<]+?>", "", text): one pass, left to right, over the
\* non-overlapping matches; what is left is not scanned again.
RECURSIVE StripFrom(_, _)
StripFrom(s, i) ==
    IF i > Len(s) THEN <<>>
    ELSE LET j == TagEnd(s, i)
         IN  IF j > 0 THEN StripFrom(s, j + 1)
             ELSE <<s[i]>> \o StripFrom(s, i + 1)

StripTags(s) == StripFrom(s, 1)

\* re.sub(r"\s+", " ", text)
RECURSIVE CollapseFrom(_, _)
CollapseFrom(s, i) ==
    IF i > Len(s) THEN <<>>
    ELSE IF IsSpace(s[i]) THEN <<" ">> \o CollapseFrom(s, RunEnd(s, i) + 1)
    ELSE <<s[i]>> \o CollapseFrom(s, i + 1)

CollapseWhitespace(s) == CollapseFrom(s, 1)

\* str.strip()
Strip(s) ==
    LET solid == {i \in 1..Len(s) : ~IsSpace(s[i])}
    IN  IF solid = {} THEN <<>>
        ELSE SubSeq(s, Min(solid), CHOOSE i \in solid : \A j \in solid : j <= i)

\* re.split(r"(?<=[.!?])\s+", text): a separator is a whitespace run whose
\* first character follows a terminator; cur is the piece being collected.
RECURSIVE SplitFrom(_, _, _)
SplitFrom(s, i, cur) ==
    IF i > Len(s) THEN <<cur>>
    ELSE IF IsSpace(s[i]) /\ i > 1 /\ s[i - 1] \in Terminators
         THEN <<cur>> \o SplitFrom(s, RunEnd(s, i) + 1, <<>>)
    ELSE SplitFrom(s, i + 1, Append(cur, s[i]))

SplitSentences(s) == SplitFrom(s, 1, <<>>)

summarize_text(text, max_sentences) ==
    LET stripped  == StripTags(text)
        collapsed == Strip(CollapseWhitespace(stripped))
        sentences == SplitSentences(collapsed)
    IN  Join(Take(sentences, max_sentences), <<" ">>)

\* ------------------------------------------- summarize_text on its own

Alphabet == {"<", ">", "a", " ", "."}

Texts == SeqsUpTo(Alphabet, MaxLen)

Idle ==
    /\ feed_dict = <<>>
    /\ idx = 0
    /\ calls = <<>>
    /\ outcomes = <<>>
    /\ entries = <<>>
    /\ categories_map = <<>>

pipelineVars == <<feed_dict, idx, calls, outcomes, entries, categories_map>>

InitSummarize ==
    /\ pc = "call"
    /\ input \in Texts
    /\ output = <<>>
    /\ Idle

Summarize ==
    /\ pc = "call"
    /\ output' = summarize_text(input, DefaultMaxSentences)
    /\ pc' = "ret"
    /\ UNCHANGED <<input, pipelineVars>>

SpecSummarize == InitSummarize /\ [][Summarize]_vars

\* '<', one or more characters other than '<', then '>'
HasTag(s) ==
    \E i \in 1..Len(s) : \E j \in (i + 2)..Len(s) :
        /\ s[i] = "<"
        /\ s[j] = ">"
        /\ \A k \in (i + 1)..(j - 1) : s[k] # "<"

\* C7: the output of summarize_text contains no raw tag markup
C7_NoTagInSummary == pc = "ret" => ~HasTag(output)

\* ------------------------------------------------------- categorize_entry

AI_KEYWORDS ==
    << <<"a", "i">>,
       <<"a", "r", "t", "i", "f", "i", "c", "i", "a", "l", " ", "i", "n", "t", "e", "l", "l", "i", "g", "e", "n", "c", "e">>,
       <<"m", "a", "c", "h", "i", "n", "e", " ", "l", "e", "a", "r", "n", "i", "n", "g">>,
       <<"g", "e", "n", " ", "a", "i">>,
       <<"c", "h", "a", "t", "g", "p", "t">>,
       <<"o", "p", "e", "n", "a", "i">>,
       <<"d", "e", "e", "p", " ", "l", "e", "a", "r", "n", "i", "n", "g">>,
       <<"n", "e", "u", "r", "a", "l", " ", "n", "e", "t", "w", "o", "r", "k">>,
       <<"g", "e", "n", "e", "r", "a", "t", "i", "v", "e", " ", "a", "i">>,
       <<"a", "g", "e", "n", "t", " ", "a", "i">>,
       <<"a", "g", "e", "n", "t", "i", "c", " ", "a", "i">>,
       <<"g", "p", "t">> >>

RESEARCH_KEYWORDS ==
    << <<"s", "t", "u", "d", "y">>,
       <<"r", "e", "s", "e", "a", "r", "c", "h">>,
       <<"s", "u", "r", "v", "e", "y">>,
       <<"r", "e", "p", "o", "r", "t">>,
       <<"w", "h", "i", "t", "e", "p", "a", "p", "e", "r">>,
       <<"a", "n", "a", "l", "y", "s", "i", "s">>,
       <<"i", "n", "s", "i", "g", "h", "t">>,
       <<"a", "c", "a", "d", "e", "m", "i", "c">>,
       <<"i", "n", "s", "t", "i", "t", "u", "t", "e">>,
       <<"d", "a", "t", "a", "-", "d", "r", "i", "v", "e", "n">> >>

\* the keys of FEEDS that the model uses
B2BSource == "The B2B Marketer"
ResearchSource == "American Marketing Association"
OtherSource == "Marketing Dive"

SourceNames == {B2BSource, ResearchSource, OtherSource}

LowerLetters ==
    <<"a", "b", "c", "d", "e", "f", "g", "h", "i", "j", "k", "l", "m",
      "n", "o", "p", "q", "r", "s", "t", "u", "v", "w", "x", "y", "z">>

UpperLetters ==
    <<"A", "B", "C", "D", "E", "F", "G", "H", "I", "J", "K", "L", "M",
      "N", "O", "P", "Q", "R", "S", "T", "U", "V", "W", "X", "Y", "Z">>

Digits == {"0", "1", "2", "3", "4", "5", "6", "7", "8", "9"}

Range(s) == {s[i] : i \in DOMAIN s}

\* the characters \w matches
UpperSet == Range(UpperLetters)

WordChars == Range(LowerLetters) \cup UpperSet \cup Digits \cup {"_"}

\* str.lower()
LowerChar(c) ==
    IF c \in UpperSet
    THEN LowerLetters[CHOOSE i \in DOMAIN UpperLetters : UpperLetters[i] = c]
    ELSE c

Lower(s) == [i \in DOMAIN s |-> LowerChar(s[i])]

\* whether the character at position p of s is a word character; positions
\* outside s count as non-word, as at the ends of the text
IsWordAt(s, p) == p \in DOMAIN s /\ s[p] \in WordChars

\* \b between positions p - 1 and p
Boundary(s, p) == IsWordAt(s, p - 1) # IsWordAt(s, p)

\* re.search(r"\b<kw>\b", text) finds a match
Search(kw, text) ==
    \E p \in 1..(Len(text) - Len(kw) + 1) :
        /\ text[p] = kw[1]
        /\ Boundary(text, p)
        /\ Boundary(text, p + Len(kw))
        /\ SubSeq(text, p, p + Len(kw) - 1) = kw

AnyMatch(keywords, text) == \E n \in DOMAIN keywords : Search(keywords[n], text)

\* list(categories): the duplicates kept
ListKeepingDuplicates(categories) ==
    [c \in Range(categories) |-> Cardinality({i \in DOMAIN categories : categories[i] = c})]

\* list(set(categories)): every element once, in no particular order
ListOfSet(categories) == SetToBag(Range(categories))

\* categorize_entry without its "General" fallback
categorize_entry_no_general(entry) ==
    LET text == Lower(entry.title \o <<" ">> \o entry.summary)
        c1 == IF entry.source = B2BSource THEN <<"B2B">> ELSE <<>>
        c2 == IF entry.source = ResearchSource THEN Append(c1, "Research") ELSE c1
        c3 == IF AnyMatch(AI_KEYWORDS, text) THEN Append(c2, "AI") ELSE c2
        c4 == IF AnyMatch(RESEARCH_KEYWORDS, text) THEN Append(c3, "Research") ELSE c3
    IN  ListOfSet(c4)

categorize_entry(entry) ==
    LET text == Lower(entry.title \o <<" ">> \o entry.summary)
        c1 == IF entry.source = B2BSource THEN <<"B2B">> ELSE <<>>
        c2 == IF entry.source = ResearchSource THEN Append(c1, "Research") ELSE c1
        c3 == IF AnyMatch(AI_KEYWORDS, text) THEN Append(c2, "AI") ELSE c2
        c4 == IF AnyMatch(RESEARCH_KEYWORDS, text) THEN Append(c3, "Research") ELSE c3
        c5 == IF c4 = <<>> THEN Append(c4, "General") ELSE c4
    IN  ListOfSet(c5)

\* ----------------------------------------- categorize_entry on its own

\* most fragments a title is put together from
MaxFrags == 2

Fragments ==
    { <<"a", "i">>, <<"A", "I">>, <<"s", "t", "u", "d", "y">>,
      <<"d">>, <<" ">>, <<"-">> }

Titles == {Join(fs, <<>>) : fs \in SeqsUpTo(Fragments, MaxFrags)}

Summaries == {<<>>} \cup Fragments

InitCategorize ==
    /\ pc = "call"
    /\ input \in [source : SourceNames, title : Titles, summary : Summaries]
    /\ output = EmptyBag
    /\ Idle

Categorize ==
    /\ pc = "call"
    /\ output' = categorize_entry(input)
    /\ pc' = "ret"
    /\ UNCHANGED <<input, pipelineVars>>

SpecCategorize == InitCategorize /\ [][Categorize]_vars

Categories == {"AI", "B2B", "Research", "General"}

\* C3: the categories are a non-empty subset of the four labels, and General
\* is present exactly when no override and no keyword applies, and then alone
C3_GeneralOnlyWhenNothingMatched ==
    pc = "ret" =>
        LET cats == BagToSet(output)
            text == Lower(input.title \o <<" ">> \o input.summary)
            nothing ==
                /\ input.source \notin {B2BSource, ResearchSource}
                /\ ~AnyMatch(AI_KEYWORDS, text)
                /\ ~AnyMatch(RESEARCH_KEYWORDS, text)
        IN  /\ cats # {}
            /\ cats \subseteq Categories
            /\ ("General" \in cats) <=> nothing
            /\ ("General" \in cats) => cats = {"General"}

C3_Witness ==
    /\ pc = "ret"
    /\ BagToSet(output) = {"General"}
    /\ input.title # <<>>

\* C4: the B2B source always yields B2B and the research-association source
\* always yields Research, whatever the text; every category appears once
C4_SourceOverrides ==
    pc = "ret" =>
        /\ input.source = B2BSource => BagIn("B2B", output)
        /\ input.source = ResearchSource => BagIn("Research", output)
        /\ \A c \in BagToSet(output) : CopiesIn(c, output) = 1

C4_Witness ==
    /\ pc = "ret"
    /\ input.source = ResearchSource
    /\ AnyMatch(RESEARCH_KEYWORDS, Lower(input.title \o <<" ">> \o input.summary))
    /\ CopiesIn("Research", output) = 1

\* ------------------------------------------------------------------ dates

\* A publication date string, by its parts: kind "rfc2822" is a string of the
\* form "Wed, 01 Jan 2025 23:00:00 +0000" with the fields given (offset in
\* hours); the other kinds are strings no parser accepts.
DateStr(y, m, d, h, off) ==
    [kind |-> "rfc2822", year |-> y, month |-> m, day |-> d, hour |-> h, offset |-> off]

\* the string ""
EmptyDate == [kind |-> "empty", year |-> 0, month |-> 0, day |-> 0, hour |-> 0, offset |-> 0]

\* email.utils.parsedate: the fields as written, the offset dropped, no range
\* check on day or hour; None (ok = FALSE) when the string is not a date.
parsedate(d) ==
    IF d.kind = "rfc2822"
    THEN [ok |-> TRUE, t |-> <<d.year, d.month, d.day, d.hour, 0, 0, 0, 1, -1>>]
    ELSE [ok |-> FALSE, t |-> <<>>]

IsLeap(y) == (y % 4 = 0 /\ y % 100 # 0) \/ y % 400 = 0

DaysInMonth(y, m) ==
    IF m = 2 THEN (IF IsLeap(y) THEN 29 ELSE 28)
    ELSE IF m \in {4, 6, 9, 11} THEN 30 ELSE 31

\* email.utils.parsedate_to_datetime: raises ValueError (ok = FALSE) when the
\* string is not a date or datetime() rejects its fields.
parsedate_to_datetime(d) ==
    IF /\ d.kind = "rfc2822"
       /\ d.month \in 1..12
       /\ d.day \in 1..DaysInMonth(d.year, d.month)
       /\ d.hour \in 0..23
    THEN [ok |-> TRUE, dt |-> d]
    ELSE [ok |-> FALSE, dt |-> d]

DigitChars == <<"0", "1", "2", "3", "4", "5", "6", "7", "8", "9">>

DigitChar(n) == DigitChars[n + 1]

MonthAbbr ==
    << <<"J", "a", "n">>, <<"F", "e", "b">>, <<"M", "a", "r">>, <<"A", "p", "r">>,
       <<"M", "a", "y">>, <<"J", "u", "n">>, <<"J", "u", "l">>, <<"A", "u", "g">>,
       <<"S", "e", "p">>, <<"O", "c", "t">>, <<"N", "o", "v">>, <<"D", "e", "c">> >>

\* dt.strftime("%d %b %Y")
strftime(dt) ==
    <<DigitChar(dt.day \div 10), DigitChar(dt.day % 10), " ">>
    \o MonthAbbr[dt.month] \o <<" ">>
    \o <<DigitChar((dt.year \div 1000) % 10), DigitChar((dt.year \div 100) % 10),
         DigitChar((dt.year \div 10) % 10), DigitChar(dt.year % 10)>>

\* ------------------------------------------------------- fetch_feed_items

\* count=5 in process_entries' call
FetchCount == 5

\* item.findtext(name, default=default)
findtext(element, name, default) ==
    IF name \in DOMAIN element.children THEN element.children[name] ELSE default

\* root.findall(".//item"): the item elements, in document order
RECURSIVE findall(_)
findall(doc) ==
    IF doc = <<>> THEN <<>>
    ELSE IF Head(doc).tag = "item" THEN <<Head(doc)>> \o findall(Tail(doc))
    ELSE findall(Tail(doc))

RawItem(item) ==
    [title       |-> findtext(item, "title", <<>>),
     link        |-> findtext(item, "link", ""),
     published   |-> findtext(item, "pubDate", EmptyDate),
     description |-> findtext(item, "description", <<>>)]

\* What the server answers: kind "ok" is a 2xx response whose body parses to
\* the element list doc; "network" fails in requests.get, "status" in
\* raise_for_status, "xml" in ET.fromstring.
FailureKinds == {"network", "status", "xml"}

Failure(kind) == [kind |-> kind, doc |-> <<>>]

Success(doc) == [kind |-> "ok", doc |-> doc]

\* fetch_feed_items without its try/except: a failure reaches the caller
fetch_feed_items_raising(response, count) ==
    IF response.kind # "ok"
    THEN [raised |-> TRUE, items |-> <<>>]
    ELSE LET found == Take(findall(response.doc), count)
         IN  [raised |-> FALSE, items |-> [i \in 1..Len(found) |-> RawItem(found[i])]]

\* fetch_feed_items slicing [:count + 1]
fetch_feed_items_one_more(response, count) ==
    IF response.kind # "ok"
    THEN [raised |-> FALSE, items |-> <<>>]
    ELSE LET found == Take(findall(response.doc), count + 1)
         IN  [raised |-> FALSE, items |-> [i \in 1..Len(found) |-> RawItem(found[i])]]

\* raised tells whether the call ends by an exception reaching the caller
fetch_feed_items(response, count) ==
    IF response.kind # "ok"
    THEN [raised |-> FALSE, items |-> <<>>]
    ELSE LET found == Take(findall(response.doc), count)
         IN  [raised |-> FALSE, items |-> [i \in 1..Len(found) |-> RawItem(found[i])]]

\* ------------------------------------------------------- process_entries

Placeholder ==
    <<"N", "o", " ", "s", "u", "m", "m", "a", "r", "y", " ", "a", "v", "a", "i", "l", "a", "b", "l", "e", ".">>

\* the summary taken as it is, without the `or`
WithoutPlaceholder(summary) == summary

\* summarize_text(...) or "No summary available."
OrPlaceholder(summary) == IF summary = <<>> THEN Placeholder ELSE summary

NewEntry(source, item) ==
    [source    |-> source,
     title     |-> item.title,
     link      |-> item.link,
     published |-> item.published,
     summary   |-> OrPlaceholder(summarize_text(item.description, DefaultMaxSentences))]

\* a loop that asks a source again when it gave nothing
RetryWhenEmpty(i, items) == IF items = <<>> THEN i ELSE i + 1

\* the for loop moves on to the next key of feed_dict
NextSource(i, items) == i + 1

\* parsedate(entry.get("published", "")) or (0,)
parse_date(entry) ==
    LET r == parsedate(entry.published)
    IN  IF r.ok THEN r.t ELSE <<0>>

\* Python's order on tuples of integers
RECURSIVE TupleLess(_, _)
TupleLess(a, b) ==
    IF b = <<>> THEN FALSE
    ELSE IF a = <<>> THEN TRUE
    ELSE IF Head(a) # Head(b) THEN Head(a) < Head(b)
    ELSE TupleLess(Tail(a), Tail(b))

\* where list.sort(key=parse_date, reverse=True) puts e among the entries
\* already placed: behind every entry whose key is not smaller (the sort is
\* stable, so equal keys keep their order)
InsertDescending(sorted, e) ==
    LET ahead == {i \in 1..Len(sorted) : ~TupleLess(parse_date(sorted[i]), parse_date(e))}
        n     == IF ahead = {} THEN 0 ELSE CHOOSE i \in ahead : \A j \in ahead : j <= i
    IN  SubSeq(sorted, 1, n) \o <<e>> \o SubSeq(sorted, n + 1, Len(sorted))

RECURSIVE SortFrom(_, _)
SortFrom(sorted, rest) ==
    IF rest = <<>> THEN sorted
    ELSE SortFrom(InsertDescending(sorted, Head(rest)), Tail(rest))

SortEntries(es) == SortFrom(<<>>, es)

\* the "format dates" loop body: entry["date"] = ...
FormatDate(entry) ==
    LET r == parsedate_to_datetime(entry.published)
    IN  [source    |-> entry.source,
         title     |-> entry.title,
         link      |-> entry.link,
         published |-> entry.published,
         summary   |-> entry.summary,
         date      |-> IF r.ok THEN strftime(r.dt) ELSE <<>>]

\* --------------------------------------------------------- generate_html

\* the entry appended under every tab, whatever its categories
AppendUnderAll(map, cats, entry) ==
    [c \in Categories |-> Append(map[c], entry)]

\* for c in cats: categories_map[c].append(entry)
AppendUnder(map, cats, entry) ==
    [c \in Categories |-> map[c] \o [i \in 1..CopiesIn(c, cats) |-> entry]]

\* the loop over all_entries, from the map built so far
RECURSIVE GroupFrom(_, _)
GroupFrom(map, all_entries) ==
    IF all_entries = <<>> THEN map
    ELSE LET cats == categorize_entry(Head(all_entries))
         IN  GroupFrom(AppendUnder(map, cats, Head(all_entries)), Tail(all_entries))

CategoriesMap(all_entries) == GroupFrom([c \in Categories |-> <<>>], all_entries)

\* ------------------------------------------------------------ the pipeline

\* most sources in the mapping given to process_entries
MaxSources == 2
\* most elements in one feed document
MaxItems == 1

DateA == DateStr(2025, 1, 1, 23, 0)
DateB == DateStr(2025, 1, 2, 0, 5)
Date31Feb == DateStr(2025, 2, 31, 10, 0)

Item1 ==
    [tag |-> "item",
     children |->
        [title |-> <<"A", "I", " ", "R", "e", "p", "o", "r", "t">>,
         link |-> "https://example.org/1",
         pubDate |-> DateA,
         description |-> <<"<", "p", ">", "A", " ", "s", "t", "u", "d", "y", ".", "<", "/", "p", ">", " ", "B", ".", " ", "C", ".">>]]

Item2 ==
    [tag |-> "item",
     children |->
        [title |-> <<"N", "o", "t", "e", "s">>,
         link |-> "https://example.org/2",
         pubDate |-> DateB,
         description |-> <<"<", "b", ">", "<", "/", "b", ">">>]]

\* an item with no title, pubDate or description element
Item3 ==
    [tag |-> "item", children |-> [link |-> "https://example.org/3"]]

Item4 ==
    [tag |-> "item",
     children |->
        [title |-> <<"O", "p", "e", "n", "A", "I">>,
         link |-> "https://example.org/4",
         pubDate |-> Date31Feb,
         description |-> <<" ", "\n">>]]

Items == {Item1, Item2, Item3, Item4}

\* the documents a server may answer with: no article twice in one feed
Documents ==
    {doc \in SeqsUpTo(Items, MaxItems) : \A i, j \in DOMAIN doc : i # j => doc[i] # doc[j]}

Responses ==
    {Failure(k) : k \in FailureKinds} \cup {Success(doc) : doc \in Documents}

\* the mappings: the configured names, each at most once, in any order
FeedDicts ==
    {f \in SeqsUpTo(SourceNames, MaxSources) :
        f # <<>> /\ \A i, j \in DOMAIN f : i # j => f[i] # f[j]}

Init ==
    /\ pc = "loop"
    /\ feed_dict \in FeedDicts
    /\ idx = 1
    /\ calls = <<>>
    /\ outcomes = <<>>
    /\ entries = <<>>
    /\ categories_map = <<>>
    /\ input = <<>>
    /\ output = <<>>

\* process_entries calls fetch_feed_items for the source the loop is at
FetchCall ==
    /\ pc = "loop"
    /\ idx <= Len(feed_dict)
    /\ calls' = Append(calls, feed_dict[idx])
    /\ pc' = "fetching"
    /\ UNCHANGED <<feed_dict, idx, outcomes, entries, categories_map, input, output>>

\* the call ends, and the loop body appends one entry per item
FetchReturn ==
    /\ pc = "fetching"
    /\ \E response \in Responses :
        LET r == fetch_feed_items(response, FetchCount)
        IN  /\ outcomes' = Append(outcomes, response)
            /\ IF r.raised
               THEN /\ pc' = "raised"
                    /\ UNCHANGED <<idx, entries>>
               ELSE /\ entries' = entries \o
                        [i \in 1..Len(r.items) |-> NewEntry(feed_dict[idx], r.items[i])]
                    /\ idx' = NextSource(idx, r.items)
                    /\ pc' = "loop"
    /\ UNCHANGED <<feed_dict, calls, categories_map, input, output>>

\* after the loop: sort, format the dates, return
SortAndFormat ==
    /\ pc = "loop"
    /\ idx > Len(feed_dict)
    /\ entries' = LET sorted == SortEntries(entries)
                  IN  [i \in 1..Len(sorted) |-> FormatDate(sorted[i])]
    /\ pc' = "returned"
    /\ UNCHANGED <<feed_dict, idx, calls, outcomes, categories_map, input, output>>

\* main hands the list to generate_html, which groups it by category
GenerateHtml ==
    /\ pc = "returned"
    /\ categories_map' = CategoriesMap(entries)
    /\ pc' = "rendered"
    /\ UNCHANGED <<feed_dict, idx, calls, outcomes, entries, input, output>>

Next == FetchCall \/ FetchReturn \/ SortAndFormat \/ GenerateHtml

Spec == Init /\ [][Next]_vars

\* A claim's formula speaks of the run of process_entries, from the first
\* call of fetch_feed_items to the list handed to generate_html.
Returned == pc \in {"returned", "rendered"}

\* the list Python's for loop leaves behind: the pieces one after another
RECURSIVE Concat(_)
Concat(lists) == IF lists = <<>> THEN <<>> ELSE Head(lists) \o Concat(Tail(lists))

SeqToBag(s) == [x \in Range(s) |-> Cardinality({i \in DOMAIN s : s[i] = x})]

\* what tells one entry from another: its source and the item's own fields
Core(e) ==
    [source |-> e.source, title |-> e.title, link |-> e.link, published |-> e.published]

\* the entries the k-th fetched source contributes: one per item of its
\* document when its fetch succeeded, none when it failed
EntriesOfSource(k) ==
    IF outcomes[k].kind = "ok"
    THEN [i \in DOMAIN outcomes[k].doc |->
             [source    |-> feed_dict[k],
              title     |-> findtext(outcomes[k].doc[i], "title", <<>>),
              link      |-> findtext(outcomes[k].doc[i], "link", ""),
              published |-> findtext(outcomes[k].doc[i], "pubDate", EmptyDate)]]
    ELSE <<>>

EntriesOfAllSources == Concat([k \in DOMAIN outcomes |-> EntriesOfSource(k)])

\* C1: a failing fetch gives an empty list and raises nothing, and the run
\* returns exactly the entries of the sources whose fetch succeeded
C1_FailureIsolated ==
    /\ pc # "raised"
    /\ pc \in {"loop", "fetching"} =>
        [i \in DOMAIN entries |-> Core(entries[i])] = EntriesOfAllSources
    /\ Returned =>
        /\ Len(outcomes) = Len(feed_dict)
        /\ SeqToBag([i \in DOMAIN entries |-> Core(entries[i])]) = SeqToBag(EntriesOfAllSources)

C1_Witness ==
    /\ pc = "returned"
    /\ \E k \in DOMAIN outcomes : outcomes[k].kind \in FailureKinds
    /\ \E k \in DOMAIN outcomes : outcomes[k].kind = "ok" /\ outcomes[k].doc # <<>>
    /\ entries # <<>>

\* the moment a date string denotes, in hours, its offset taken into account
LeapDaysBefore(y) == ((y - 1) \div 4) - ((y - 1) \div 100) + ((y - 1) \div 400)

RECURSIVE DaysBeforeMonth(_, _)
DaysBeforeMonth(y, m) ==
    IF m <= 1 THEN 0 ELSE DaysInMonth(y, m - 1) + DaysBeforeMonth(y, m - 1)

Instant(d) ==
    (365 * d.year + LeapDaysBefore(d.year) + DaysBeforeMonth(d.year, d.month) + d.day) * 24
    + d.hour - d.offset

\* the parsed publication date of the claim; -1 stands for the oldest
\* possible value, below every moment a date string denotes
parsed_date(e) == IF parsedate(e.published).ok THEN Instant(e.published) ELSE -1

\* C2: the returned list is ordered by parsed publication date, descending,
\* an unparseable date counting as the oldest possible value
C2_SortedByDateDescending ==
    Returned =>
        \A i \in 1..(Len(entries) - 1) : parsed_date(entries[i]) >= parsed_date(entries[i + 1])

\* the elements of s at the positions of keep, in the order of s
RECURSIVE Pick(_, _)
Pick(s, keep) ==
    IF s = <<>> THEN <<>>
    ELSE (IF 1 \in keep THEN <<Head(s)>> ELSE <<>>)
         \o Pick(Tail(s), {i - 1 : i \in keep \ {1}})

EntryFields == {"source", "title", "link", "published", "summary", "date"}

C8_DisplayDateFollowsParse ==
    Returned =>
        /\ Len(entries) = Len(EntriesOfAllSources)
        /\ \A i \in DOMAIN entries :
            LET sortedAsDated == parse_date(entries[i]) # <<0>>
                shownDated    == entries[i].date # <<>>
            IN  /\ sortedAsDated <=> shownDated
                /\ shownDated => entries[i].date = strftime(entries[i].published)

\* C9: fetch_feed_items is called once per source, in the order of the
\* mapping, one call at a time, and never again for a source that failed
C9_OneFetchPerSourceInOrder ==
    /\ Len(calls) <= Len(feed_dict)
    /\ calls = SubSeq(feed_dict, 1, Len(calls))
    /\ Len(outcomes) = IF pc = "fetching" THEN Len(calls) - 1 ELSE Len(calls)
    /\ Returned => calls = feed_dict

C9_Witness ==
    /\ pc = "returned"
    /\ Len(feed_dict) >= 2
    /\ outcomes[1].kind \in FailureKinds
    /\ outcomes[2].kind = "ok"
    /\ calls = feed_dict

\* whether entry e was built from item element x of the k-th fetched source
BuiltFrom(e, k, x) ==
    /\ e.source = feed_dict[k]
    /\ e.link = findtext(x, "link", "")
    /\ e.title = findtext(x, "title", <<>>)

\* C10: every entry has a non-empty summary: the placeholder when
\* summarize_text gives the empty string for the item's description, and
\* the summarizer's output otherwise
C10_SummaryNeverEmpty ==
    \A i \in DOMAIN entries :
        /\ entries[i].summary # <<>>
        /\ \E k \in DOMAIN outcomes : \E n \in DOMAIN outcomes[k].doc :
            LET x == outcomes[k].doc[n]
                s == summarize_text(findtext(x, "description", <<>>), DefaultMaxSentences)
            IN  /\ BuiltFrom(entries[i], k, x)
                /\ s = <<>> => entries[i].summary = Placeholder
                /\ s # <<>> => entries[i].summary = s

C10_Witness ==
    /\ pc = "returned"
    /\ \E i \in DOMAIN entries : entries[i].summary = Placeholder
    /\ \E i \in DOMAIN entries : entries[i].summary # Placeholder

\* ----------------------------------------- fetch_feed_items on its own

\* most elements in a document given to fetch_feed_items on its own
MaxDocLen == 3
\* largest count given to fetch_feed_items on its own
MaxCount == 4

\* an element that is not an item
ChannelTitle == [tag |-> "title", children |-> [text |-> <<"f", "e", "e", "d">>]]

Elements == {Item1, Item3, ChannelTitle}

InitFetch ==
    /\ pc = "call"
    /\ input \in [response : {Failure(k) : k \in FailureKinds}
                             \cup {Success(doc) : doc \in SeqsUpTo(Elements, MaxDocLen)},
                  count : 0..MaxCount]
    /\ output = [raised |-> FALSE, items |-> <<>>]
    /\ Idle

Fetch ==
    /\ pc = "call"
    /\ output' = fetch_feed_items(input.response, input.count)
    /\ pc' = "ret"
    /\ UNCHANGED <<input, pipelineVars>>

SpecFetch == InitFetch /\ [][Fetch]_vars

\* the positions of the item elements of a document
ItemPositions(doc) == {p \in DOMAIN doc : doc[p].tag = "item"}

\* the position of the i-th item element
NthItem(doc, i) ==
    CHOOSE p \in ItemPositions(doc) : Cardinality({q \in ItemPositions(doc) : q <= p}) = i

\* C6: of a document with k item elements, fetch_feed_items returns the
\* first min(k, N), in document order
C6_FirstNInDocumentOrder ==
    (pc = "ret" /\ input.response.kind = "ok") =>
        LET doc == input.response.doc
            k   == Cardinality(ItemPositions(doc))
            n   == IF k < input.count THEN k ELSE input.count
        IN  /\ ~output.raised
            /\ Len(output.items) = n
            /\ \A i \in 1..n : output.items[i] = RawItem(doc[NthItem(doc, i)])

C6_Witness ==
    /\ pc = "ret"
    /\ input.response.kind = "ok"
    /\ input.count = 1
    /\ Cardinality(ItemPositions(input.response.doc)) = 2
    /\ input.response.doc[1].tag # "item"
    /\ Len(output.items) = 1

====
